---- MODULE Spec2Model ----
(***************************************************************************)
(* The reactive store, the event scheduler and the subscription registry   *)
(* of the web-component engine.                                            *)
(*                                                                         *)
(* Two generations of the observer store are modelled side by side:        *)
(*   "v3"  src/unnamed/part_000                                            *)
(*   "v2"  src/web-component.js, lines 396-679                             *)
(* They share createObserver, #emitEvent, #processEvents and subscribe;    *)
(* they differ in the set trap (v2 has no function exemption) and in what  *)
(* #processEvents hands to a consumer.                                     *)
(*                                                                         *)
(* JavaScript values are records: k is the kind, s, n and v the content,   *)
(* w the chain of observer proxies (innermost first, each given by the     *)
(* path it was created with) that the stored reference is wrapped in. A    *)
(* plain object or array has w = <<>>.                                     *)
(***************************************************************************)
EXTENDS Integers, Sequences, FiniteSets, TLC

VARIABLES
  gen,        \* which generation of the store is running
  state,      \* StateManager.#state, the raw state tree
  events,     \* StateManager.#events, the pending queue
  raf,        \* frame callbacks requested for the next frame
  cbs,        \* frame callbacks of the current frame still to run
  pc,         \* "idle" | "frame" | "flush"
  consumers,  \* StateManager.consumers, in Map insertion order
  nseq,       \* number of the next event emitted (history)
  cbno,       \* index of the frame callback running or last run (history)
  log,        \* consumer invocations of the current frame (history)
  taken,      \* events dequeued in the current frame (history)
  seq0,       \* nseq when the current frame began (history)
  last,       \* the last store operation and the events it emitted (history)
  ops,        \* store operations performed by scripts so far
  subs,       \* subscribe calls so far
  inp,        \* the arguments of a call of the template functions
  res,        \* what that call returned or did
  dom,        \* the nodes the binder has produced
  host        \* the component shell: element registry, loader cache, fragment nodes

vars == <<gen, state, events, raf, cbs, pc, consumers, nseq, cbno, log, taken, seq0, last,
          ops, subs, inp, res, dom, host>>

----------------------------------------------------------------------------
(* Bounds *)

MaxOps == 2
SchedOps == 2
MaxSubs == 2
MaxLen == 3
MaxSeq == 8
BindOps == 2
MaxCalls == 3
MaxAttach == 4
ThrowOps == 3
PathOps == 2

----------------------------------------------------------------------------
(* Values *)

\* Every value carries the same fields, each of one type: k the kind, s the text of
\* a string, n the number, v the elements of an array or the property values of an
\* object (in the order of KeySeq), w the proxy chain.
Val(k, str, n, v) == [k |-> k, n |-> n, v |-> v, s |-> str, w |-> <<>>]

Undef == Val("undefined", "", 0, <<>>)
Null == Val("null", "", 0, <<>>)
Fn == Val("function", "", 0, <<>>)
Str(str) == Val("string", str, 0, <<>>)
Num(n) == Val("number", "", n, <<>>)
Arr(q) == Val("array", "", 0, q)
\* An array slot that holds no property (between a delete and the length write).
Hole == Val("hole", "", 0, <<>>)

\* Property names of plain objects; a property that is absent reads undefined.
KeySeq == <<"name", "age", "user", "items", "user,name">>
Keys == {KeySeq[i] : i \in 1..Len(KeySeq)}
KeyIdx(key) == CHOOSE i \in 1..Len(KeySeq) : KeySeq[i] = key

\* An object literal; f gives the properties it has.
Obj(f) ==
  Val("object", "", 0,
      [i \in 1..Len(KeySeq) |-> IF KeySeq[i] \in DOMAIN f THEN f[KeySeq[i]] ELSE Undef])

\* typeof value === 'object' && value !== null
IsObject(x) == x.k \in {"object", "array"}

\* String(n) for an array index or a length.
Digit(d) ==
  CASE d = 0 -> "0" [] d = 1 -> "1" [] d = 2 -> "2" [] d = 3 -> "3" [] d = 4 -> "4"
    [] d = 5 -> "5" [] d = 6 -> "6" [] d = 7 -> "7" [] d = 8 -> "8" [] d = 9 -> "9"

RECURSIVE ToStr(_)
ToStr(n) == IF n < 10 THEN Digit(n) ELSE ToStr(n \div 10) \o Digit(n % 10)

MaxIdx == 12
IsIndex(key) == \E i \in 0..MaxIdx : ToStr(i) = key
IdxOf(key) == CHOOSE i \in 0..MaxIdx : ToStr(i) = key

\* Array.prototype.join / toString of a path.
RECURSIVE JoinPath(_)
JoinPath(p) ==
  IF Len(p) = 0 THEN ""
  ELSE IF Len(p) = 1 THEN p[1]
  ELSE p[1] \o "," \o JoinPath(Tail(p))

----------------------------------------------------------------------------
(* Reflect.get / Reflect.set / Reflect.deleteProperty on a raw target *)

ReflectGet(t, key) ==
  IF t.k = "object" THEN (IF key \in Keys THEN t.v[KeyIdx(key)] ELSE Undef)
  ELSE IF t.k = "array" THEN
    IF key = "length" THEN Num(Len(t.v))
    ELSE IF IsIndex(key) /\ IdxOf(key) < Len(t.v) /\ t.v[IdxOf(key) + 1] # Hole
      THEN t.v[IdxOf(key) + 1]
    ELSE Undef
  ELSE Undef

HasProperty(t, key) ==
  IF t.k = "array"
    THEN IsIndex(key) /\ IdxOf(key) < Len(t.v) /\ t.v[IdxOf(key) + 1] # Hole
  ELSE t.k = "object" /\ key \in Keys /\ t.v[KeyIdx(key)] # Undef

Holes(n) == [i \in 1..n |-> Hole]

\* An index at or past the length grows the array (the slots between are holes);
\* a length below the current one cuts it.
ReflectSet(t, key, x) ==
  IF t.k = "object" THEN [t EXCEPT !.v[KeyIdx(key)] = x]
  ELSE IF key = "length" THEN
    [t EXCEPT !.v = IF x.n < Len(t.v) THEN SubSeq(t.v, 1, x.n)
                    ELSE t.v \o Holes(x.n - Len(t.v))]
  ELSE IF IdxOf(key) < Len(t.v) THEN [t EXCEPT !.v[IdxOf(key) + 1] = x]
  ELSE [t EXCEPT !.v = t.v \o Holes(IdxOf(key) - Len(t.v)) \o <<x>>]

ReflectDelete(t, key) ==
  IF t.k = "object" THEN [t EXCEPT !.v[KeyIdx(key)] = Undef]
  ELSE IF IsIndex(key) /\ IdxOf(key) < Len(t.v) THEN [t EXCEPT !.v[IdxOf(key) + 1] = Hole]
  ELSE t

\* The raw value stored at a path of the tree, and the tree with it replaced.
RECURSIVE GetAt(_, _)
GetAt(root, path) ==
  IF Len(path) = 0 THEN root
  ELSE GetAt(ReflectGet(root, path[1]), Tail(path))

RECURSIVE PutAt(_, _, _)
PutAt(root, path, x) ==
  IF Len(path) = 0 THEN x
  ELSE ReflectSet(root, path[1], PutAt(ReflectGet(root, path[1]), Tail(path), x))

----------------------------------------------------------------------------
(* createObserver: views, traps and the events they emit *)

\* A view is a proxy made by createObserver on the way down from the root view:
\* p is the path it was created with, l the paths of the proxies (innermost
\* first) that its target is already wrapped in.
RootView == [p |-> <<>>, l |-> <<>>]

AppendAll(paths, key) == [i \in 1..Len(paths) |-> Append(paths[i], key)]

\* get trap on an object-valued property: createObserver(value, emitEvent, [...path, property])
ChildView(root, view, key) ==
  LET c == ReflectGet(GetAt(root, view.p), key)
  IN [p |-> Append(view.p, key), l |-> c.w \o AppendAll(view.l, key)]

RECURSIVE ViewFrom(_, _, _)
ViewFrom(root, view, keys) ==
  IF Len(keys) = 0 THEN view
  ELSE ViewFrom(root, ChildView(root, view, keys[1]), Tail(keys))

ViewAt(root, path) == ViewFrom(root, RootView, path)

\* What the get trap returns: the value itself, or for an object the proxy, which
\* is what an array method stores back when it moves the element.
TrapGet(root, view, key) ==
  LET c == ReflectGet(GetAt(root, view.p), key)
  IN IF IsObject(c)
       THEN [c EXCEPT !.w = ChildView(root, view, key).l \o <<Append(view.p, key)>>]
       ELSE c

\* #emitEvent requesting a frame callback only when the queue was empty
EmitEventOnce(m, event, path, oldValue, newValue) ==
  [m EXCEPT !.q = Append(@, [path |-> path, event |-> event, oldValue |-> oldValue,
                             newValue |-> newValue, seq |-> m.n]),
            !.raf = IF Len(m.q) = 0 THEN @ + 1 ELSE @,
            !.n = @ + 1]

\* #emitEvent: push the event and request a frame callback.
EmitEvent(m, event, path, oldValue, newValue) ==
  [m EXCEPT !.q = Append(@, [path |-> path, event |-> event, oldValue |-> oldValue,
                             newValue |-> newValue, seq |-> m.n]),
            !.raf = @ + 1,
            !.n = @ + 1]

\* eventPath = [property]: the path of the view dropped
RECURSIVE EmitChainFlat(_, _, _, _, _, _)
EmitChainFlat(m, chain, event, key, oldValue, newValue) ==
  IF Len(chain) = 0 THEN m
  ELSE EmitChainFlat(EmitEvent(m, event, <<key>>, oldValue, newValue),
                     Tail(chain), event, key, oldValue, newValue)

\* One emit per proxy of the chain, the innermost first.
RECURSIVE EmitChain(_, _, _, _, _, _)
EmitChain(m, chain, event, key, oldValue, newValue) ==
  IF Len(chain) = 0 THEN m
  ELSE EmitChain(EmitEvent(m, event, Append(chain[1], key), oldValue, newValue),
                 Tail(chain), event, key, oldValue, newValue)

\* Whether the set trap returns before emitting.
FunctionExempt(g, value) == g = "v3" /\ value.k = "function"

\* oldValue != undefined, the loose comparison: null counts as undefined
IsDefinedLoose(oldValue) == oldValue.k \notin {"undefined", "null"}

\* oldValue !== undefined
IsDefined(oldValue) == oldValue.k # "undefined"

\* handlers.set
TrapSet(m, view, key, value) ==
  LET t == GetAt(m.s, view.p)
      oldValue == ReflectGet(t, key)
      m1 == [m EXCEPT !.s = PutAt(m.s, view.p, ReflectSet(t, key, value))]
      chain == view.l \o <<view.p>>
  IN IF FunctionExempt(m.g, value) THEN m1
     ELSE IF IsDefined(oldValue)
       THEN EmitChain(m1, chain, "change", key, oldValue, value)
     ELSE EmitChain(m1, chain, "assign", key, Undef, value)

\* handlers.deleteProperty
TrapDelete(m, view, key) ==
  LET t == GetAt(m.s, view.p)
      oldValue == ReflectGet(t, key)
      m1 == [m EXCEPT !.s = PutAt(m.s, view.p, ReflectDelete(t, key))]
  IN EmitChain(m1, view.l \o <<view.p>>, "remove", key, oldValue, Undef)

----------------------------------------------------------------------------
(* Array methods called on a view.                                         *)
(*                                                                         *)
(* push, pop, shift, unshift, splice and sort of the handlers object are   *)
(* not proxy traps: new Proxy(target, handlers) ignores them. A call such  *)
(* as view.push(x) gets Array.prototype.push through the get trap and runs *)
(* it with the view as this, so every property write and delete of the     *)
(* built-in algorithm goes through the set and deleteProperty traps.       *)
(* Each method is the sequence of writes and deletes its ECMAScript        *)
(* algorithm performs; every element it moves is read from a slot that     *)
(* the algorithm has not written yet.                                      *)
(***************************************************************************)

SetStep(key, value) == [key |-> key, value |-> value, op |-> "set"]
DelStep(key) == [key |-> key, value |-> Undef, op |-> "del"]

RECURSIVE RunSteps(_, _, _)
RunSteps(m, view, steps) ==
  IF Len(steps) = 0 THEN m
  ELSE RunSteps(IF steps[1].op = "set"
                  THEN TrapSet(m, view, steps[1].key, steps[1].value)
                  ELSE TrapDelete(m, view, steps[1].key),
                view, Tail(steps))

\* Set(O, to, Get(O, from)) when from is present, else DeletePropertyOrThrow(O, to).
MoveStep(root, view, from, to) ==
  IF HasProperty(GetAt(root, view.p), ToStr(from))
    THEN SetStep(ToStr(to), TrapGet(root, view, ToStr(from)))
    ELSE DelStep(ToStr(to))

LenAt(root, view) == Len(GetAt(root, view.p).v)

PushSteps(root, view, items) ==
  LET len == LenAt(root, view)
  IN [i \in 1..Len(items) |-> SetStep(ToStr(len + i - 1), items[i])]
     \o <<SetStep("length", Num(len + Len(items)))>>

PopSteps(root, view) ==
  LET len == LenAt(root, view)
  IN IF len = 0 THEN <<SetStep("length", Num(0))>>
     ELSE <<DelStep(ToStr(len - 1)), SetStep("length", Num(len - 1))>>

ShiftSteps(root, view) ==
  LET len == LenAt(root, view)
  IN IF len = 0 THEN <<SetStep("length", Num(0))>>
     ELSE [k \in 1..(len - 1) |-> MoveStep(root, view, k, k - 1)]
          \o <<DelStep(ToStr(len - 1)), SetStep("length", Num(len - 1))>>

UnshiftSteps(root, view, items) ==
  LET len == LenAt(root, view)
      argCount == Len(items)
  IN (IF argCount > 0
        THEN [i \in 1..len |-> MoveStep(root, view, len - i, len - i + argCount)]
             \o [j \in 1..argCount |-> SetStep(ToStr(j - 1), items[j])]
        ELSE <<>>)
     \o <<SetStep("length", Num(len + argCount))>>

Min(a, b) == IF a < b THEN a ELSE b
Max(a, b) == IF a > b THEN a ELSE b

SpliceSteps(root, view, start, deleteCount, items) ==
  LET len == LenAt(root, view)
      actualStart == Min(start, len)
      actualDeleteCount == Min(Max(deleteCount, 0), len - actualStart)
      itemCount == Len(items)
      down == [i \in 1..(len - actualDeleteCount - actualStart) |->
                 MoveStep(root, view, actualStart + i - 1 + actualDeleteCount,
                          actualStart + i - 1 + itemCount)]
      cut == [i \in 1..(actualDeleteCount - itemCount) |-> DelStep(ToStr(len - i))]
      up == [i \in 1..(len - actualDeleteCount - actualStart) |->
               MoveStep(root, view, len - i, len - i - actualDeleteCount + itemCount)]
  IN (IF itemCount < actualDeleteCount THEN down \o cut
      ELSE IF itemCount > actualDeleteCount THEN up
      ELSE <<>>)
     \o [j \in 1..itemCount |-> SetStep(ToStr(actualStart + j - 1), items[j])]
     \o <<SetStep("length", Num(len - actualDeleteCount + itemCount))>>

\* String(value), for the values the model sorts.
StringOf(x) ==
  CASE x.k = "string" -> x.s
    [] x.k = "number" -> ToStr(x.n)
    [] x.k = "null" -> "null"
    [] x.k = "undefined" -> "undefined"
    [] x.k = "object" -> "[object Object]"
    [] x.k = "boolean" -> IF x.n = 1 THEN "true" ELSE "false"

\* The order of the strings the model sorts, by UTF-16 code units.
CodeOrder(str) ==
  CASE str = "0" -> 0 [] str = "1" -> 1 [] str = "2" -> 2 [] str = "3" -> 3
    [] str = "[object Object]" -> 10
    [] str = "a" -> 11 [] str = "b" -> 12 [] str = "c" -> 13
    [] str = "null" -> 14 [] str = "w" -> 15

\* SortCompare(x, y) < 0: undefined sorts last and is never handed to the
\* comparator; "default" is compareFn undefined, "desc" is (x, y) => x < y ? 1 : x > y ? -1 : 0
\* on strings.
SortsBefore(x, y, cmp) ==
  IF x.k = "undefined" THEN FALSE
  ELSE IF y.k = "undefined" THEN TRUE
  ELSE IF cmp = "default" THEN CodeOrder(StringOf(x)) < CodeOrder(StringOf(y))
  ELSE CodeOrder(StringOf(x)) > CodeOrder(StringOf(y))

\* A stable insertion of x into a sorted list.
RECURSIVE InsertSorted(_, _, _)
InsertSorted(sorted, x, cmp) ==
  IF Len(sorted) = 0 THEN <<x>>
  ELSE IF SortsBefore(x, sorted[1], cmp) THEN <<x>> \o sorted
  ELSE <<sorted[1]>> \o InsertSorted(Tail(sorted), x, cmp)

RECURSIVE SortList(_, _)
SortList(list, cmp) ==
  IF Len(list) = 0 THEN <<>>
  ELSE InsertSorted(SortList(SubSeq(list, 1, Len(list) - 1), cmp), list[Len(list)], cmp)

\* SortIndexedProperties: read every element through the get trap, sort, write
\* every index back.
SortSteps(root, view, cmp) ==
  LET len == LenAt(root, view)
      read == [i \in 1..len |-> TrapGet(root, view, ToStr(i - 1))]
      sorted == SortList(read, cmp)
  IN [j \in 1..len |-> SetStep(ToStr(j - 1), sorted[j])]

ArrayPush(m, view, items) == RunSteps(m, view, PushSteps(m.s, view, items))
ArrayPop(m, view) == RunSteps(m, view, PopSteps(m.s, view))
ArrayShift(m, view) == RunSteps(m, view, ShiftSteps(m.s, view))
ArrayUnshift(m, view, items) == RunSteps(m, view, UnshiftSteps(m.s, view, items))
ArraySplice(m, view, start, deleteCount, items) ==
  RunSteps(m, view, SpliceSteps(m.s, view, start, deleteCount, items))
ArraySort(m, view, cmp) == RunSteps(m, view, SortSteps(m.s, view, cmp))

----------------------------------------------------------------------------
(* StateManager: registry and scheduler *)

\* #subscribe, one key: push onto the subject's list, or create the entry.
SubscribeKey(reg, subject, consumer) ==
  IF \E i \in 1..Len(reg) : reg[i].subject = subject
    THEN [i \in 1..Len(reg) |->
            IF reg[i].subject = subject
              THEN [reg[i] EXCEPT !.subs = Append(@, consumer)]
              ELSE reg[i]]
    ELSE Append(reg, [subs |-> <<consumer>>, subject |-> subject])

\* #subscribe(path, vars, consumer): once per key, subject = [...path, key].toString()
RECURSIVE SubscribeAll(_, _, _, _)
SubscribeAll(reg, path, keys, consumer) ==
  IF Len(keys) = 0 THEN reg
  ELSE SubscribeAll(SubscribeKey(reg, JoinPath(Append(path, keys[1])), consumer),
                    path, Tail(keys), consumer)

\* subject.startsWith(path.join()), one level deep: a subscription also fires for
\* a mutation of its parent path
MatchesAncestor(subject, path) ==
  \/ subject = JoinPath(path)
  \/ \E key \in Keys : subject = JoinPath(Append(path, key))

\* subject === path.join()
Matches(subject, path) == subject = JoinPath(path)

\* The consumers array #processEvents builds for one event, in Map order.
RECURSIVE Matching(_, _)
Matching(reg, path) ==
  IF Len(reg) = 0 THEN <<>>
  ELSE (IF Matches(reg[1].subject, path) THEN reg[1].subs ELSE <<>>)
       \o Matching(Tail(reg), path)

\* What a consumer is called with: v2 passes (event, path, oldValue, newValue),
\* v3 passes the path alone.
ConsumerArgs(g, ev) ==
  IF g = "v2"
    THEN [path |-> ev.path, event |-> ev.event, oldValue |-> ev.oldValue, newValue |-> ev.newValue]
    ELSE [path |-> ev.path, event |-> "", oldValue |-> Undef, newValue |-> Undef]

\* this.#events.pop(): the newest event first
DequeueLast(q) == [ev |-> q[Len(q)], rest |-> SubSeq(q, 1, Len(q) - 1)]

\* The event one iteration of the while loop takes: this.#events.shift()
Dequeue(q) == [ev |-> Head(q), rest |-> Tail(q)]

\* if (this.#events.length) in place of while: one event per callback
LoopOnce(q) == FALSE

\* while (this.#events.length): on entry, and after an iteration.
LoopEnter(q) == Len(q) > 0
LoopAgain(q) == Len(q) > 0

----------------------------------------------------------------------------
(* Template and the state lookups of the binder *)

Bool(b) == Val("boolean", "", IF b THEN 1 ELSE 0, <<>>)

\* The TypeError of a property read on undefined or null, or the RangeError of
\* an unbounded recursion: the call does not return.
Throw == Val("throw", "", 0, <<>>)

\* value == false, the loose comparison: the string "0" counts as false
FalsyLoose(x) ==
  \/ x.k \in {"undefined", "null"}
  \/ x.k = "string" /\ x.s \in {"", "0"}
  \/ x.k \in {"number", "boolean"} /\ x.n = 0

\* !value
Falsy(x) ==
  \/ x.k \in {"undefined", "null"}
  \/ x.k = "string" /\ x.s = ""
  \/ x.k \in {"number", "boolean"} /\ x.n = 0

\* obj[key] on a raw value. The strings of the model are never read at an index.
PropOf(x, key) ==
  IF x.k \in {"throw", "undefined", "null"} THEN Throw
  ELSE IF IsObject(x) THEN ReflectGet(x, key)
  ELSE Undef

\* path.reduce((acc, k) => acc[k], this.#state)
RECURSIVE Reduce(_, _)
Reduce(x, path) ==
  IF Len(path) = 0 THEN x ELSE Reduce(PropOf(x, path[1]), Tail(path))

\* previous = [...path]; last = previous.pop(); previous.pop(); previous.push(last)
Previous(path) ==
  IF Len(path) < 2 THEN path
  ELSE Append(SubSeq(path, 1, Len(path) - 2), path[Len(path)])

\* #getState of part_000: the value at the path, retried without the segment before
\* the last one when a segment is missing.
RECURSIVE GetState(_, _)
RECURSIVE GetStateLoop(_, _, _, _)
GetStateLoop(root, path, i, currentObject) ==
  IF i > Len(path) THEN currentObject
  ELSE IF currentObject.k = "undefined" THEN GetState(root, Previous(path))
  ELSE LET c == PropOf(currentObject, path[i])
       IN IF c.k = "throw" THEN Throw
          ELSE IF c.k = "undefined" /\ Len(path) > 1 THEN GetState(root, Previous(path))
          ELSE GetStateLoop(root, path, i + 1, c)

GetState(root, path) ==
  IF Len(path) = 0 THEN root ELSE GetStateLoop(root, path, 1, root)

\* #getState of ProxyState's StateManager (no key of the model starts with '[').
RECURSIVE GetStateA(_, _, _)
GetStateA(root, path, cur) ==
  IF Len(path) = 0 \/ path[1] = "" THEN cur
  ELSE LET c == PropOf(cur, path[1])
       IN IF ~Falsy(c) THEN GetStateA(root, Tail(path), c)
          ELSE IF Len(path) > 1
            THEN (IF cur = root THEN Throw ELSE GetStateA(root, path, root))
          ELSE PropOf(root, path[1])

\* A template text is a sequence of parts: literal text, or a placeholder with its key.
Lit(text) == [s |-> text, ph |-> FALSE]
Ph(key) == [s |-> key, ph |-> TRUE]

\* The text Template.curlyBraces matches for a key: /\${([^}]+)}/g, and /{([^}]+)}/g
\* in the second Template of web-component.js.
Match(g, key) == IF g = "v2" THEN "{" \o key \o "}" ELSE "${" \o key \o "}"

RECURSIVE SourceText(_, _)
SourceText(g, tpl) ==
  IF Len(tpl) = 0 THEN ""
  ELSE (IF tpl[1].ph THEN Match(g, tpl[1].s) ELSE tpl[1].s) \o SourceText(g, Tail(tpl))

HasVars(tpl) == \E i \in 1..Len(tpl) : tpl[i].ph

\* What a call returns: the text, or nothing when it threw.
Returned(text) == [out |-> text, threw |-> FALSE]
Thrown == [out |-> "", threw |-> TRUE]

\* The keys of the placeholders of a template.
VarsOf(tpl) == {tpl[i].s : i \in {j \in 1..Len(tpl) : tpl[j].ph}}

\* text.replace(Template.curlyBraces, f): f[key] is the value the callback returns
\* for the key, Throw when it threw.
RECURSIVE Replace(_, _)
Replace(tpl, f) ==
  IF Len(tpl) = 0 THEN Returned("")
  ELSE LET rest == Replace(Tail(tpl), f)
           v == IF tpl[1].ph THEN f[tpl[1].s] ELSE Str(tpl[1].s)
       IN IF v.k = "throw" \/ rest.threw THEN Thrown
          ELSE Returned(StringOf(v) \o rest.out)

\* Template.fill = (text, data) => text.replace(curlyBraces, (match, key) => data[key] || '')
TemplateFill(tpl, data) ==
  Replace(tpl, [key \in VarsOf(tpl) |->
    LET v == PropOf(data, key)
    IN IF v.k = "throw" THEN Throw ELSE IF Falsy(v) THEN Str("") ELSE v])

\* The first loop of #fillState: walks currentPath, popping its last segment when a
\* key is missing. st is "ok", "template" (return template) or "throw".
RECURSIVE FillWalk(_, _, _, _)
FillWalk(root, currentPath, idx, currentObject) ==
  IF idx > Len(currentPath) THEN [cp |-> currentPath, st |-> "ok"]
  ELSE LET c == PropOf(currentObject, currentPath[idx])
           popped == SubSeq(currentPath, 1, Len(currentPath) - 1)
       IN IF c.k = "throw" THEN [cp |-> currentPath, st |-> "throw"]
          ELSE IF Falsy(c) THEN
            IF Len(popped) = 0 THEN [cp |-> popped, st |-> "template"]
            ELSE IF Reduce(root, popped).k = "throw" THEN [cp |-> popped, st |-> "throw"]
            ELSE FillWalk(root, popped, idx + 1, Reduce(root, popped))
          ELSE FillWalk(root, currentPath, idx + 1, c)

\* for (let i = currentPath.length; i >= 0 && !value; i--) value = obj[varName]
RECURSIVE LookUp(_, _, _, _)
LookUp(root, currentPath, i, varName) ==
  LET obj == IF i = 0 THEN root ELSE Reduce(root, SubSeq(currentPath, 1, i))
      value == PropOf(obj, varName)
  IN IF value.k = "throw" THEN Throw
     ELSE IF i = 0 \/ ~Falsy(value) THEN value
     ELSE LookUp(root, currentPath, i - 1, varName)

\* #fillState(template, path, vars)
FillState(root, tpl, path) ==
  IF ~HasVars(tpl) THEN Returned(SourceText("v3", tpl))
  ELSE LET w == FillWalk(root, path, 1, root)
       IN IF w.st = "throw" THEN Thrown
          ELSE IF w.st = "template" THEN Returned(SourceText("v3", tpl))
          ELSE Replace(tpl, [varName \in VarsOf(tpl) |->
                 LET value == LookUp(root, w.cp, Len(w.cp), varName)
                 IN IF value.k = "throw" THEN Throw
                    ELSE IF Falsy(value) THEN Str(Match("v3", varName))
                    ELSE value])

\* The state object #bindAttributes hands to its consumers:
\* this.#getByPath(path) in web-component.js, this.#getState(path) in part_000.
AttrState(g, root, path) == IF g = "v2" THEN Reduce(root, path) ELSE GetState(root, path)

\* The value the attribute consumer reads for the key of its placeholder: data[key]
\* in Template.fill, this.#getState([..._path, key]) in ProxyState's StateManager.
AttrResolved(g, root, path, key) ==
  IF g = "A" THEN GetStateA(root, Append(path, key), root)
  ELSE PropOf(AttrState(g, root, path), key)

Kept(text) == [out |-> text, threw |-> FALSE, present |-> TRUE]
Removed == [out |-> "", threw |-> FALSE, present |-> FALSE]
AttrThrown == [out |-> "", threw |-> TRUE, present |-> TRUE]

\* #bindAttributes for one attribute whose value is tpl: the first call of its
\* consumer. const [template] = vars: the first placeholder alone is filled.
BindAttribute(g, root, path, tpl) ==
  IF ~HasVars(tpl) THEN Kept(SourceText(g, tpl))
  ELSE LET key == tpl[CHOOSE i \in 1..Len(tpl) :
                        tpl[i].ph /\ \A j \in 1..(i - 1) : ~tpl[j].ph].s
       IN IF g = "A" THEN
            LET target == GetStateA(root, path, root)
                attribute == AttrResolved(g, root, path, key)
            IN IF ~IsObject(target) \/ attribute.k = "throw" THEN AttrThrown
               ELSE IF attribute.k \in {"object", "array", "null", "function"}
                 THEN Kept("key," \o JoinPath(Append(path, key)))
               ELSE IF ~Falsy(attribute) THEN Kept(StringOf(attribute))
               ELSE Removed
          ELSE
            LET attribute == TemplateFill(<<Ph(key)>>, AttrState(g, root, path))
            IN IF attribute.threw THEN AttrThrown
               ELSE IF attribute.out # "" THEN Kept(attribute.out)
               ELSE Removed

----------------------------------------------------------------------------
(* The binder on a fixed component:                                        *)
(*   <a title="${name}"></a> <ul><li for="items">${name}</li></ul>         *)
(* ({name} in the syntax of the second Template of web-component.js)       *)
(***************************************************************************)

AttrTpl == <<Ph("name")>>
ItemTpl == <<Ph("name")>>
\* target = [...path, key] of the for region
ListTarget == <<"items">>

\* for (const index in x): the indices of an array, the keys of an object
ForIn(x) ==
  IF x.k = "array"
    THEN SelectSeq([i \in 1..Len(x.v) |-> ToStr(i - 1)], LAMBDA key : HasProperty(x, key))
  ELSE IF x.k = "object" THEN SelectSeq(KeySeq, LAMBDA key : HasProperty(x, key))
  ELSE <<>>

\* The text a text consumer writes into its clone: #fillState(text, path, vars) in
\* part_000; Template.fill(template, state) in web-component.js, state the object
\* found at the path when the clone was bound (cap once that object was replaced).
ItemText(m, clone) ==
  IF m.g = "v3" THEN FillState(m.s, clone.tpl, clone.path).out
  ELSE TemplateFill(clone.tpl, IF clone.live THEN Reduce(m.s, clone.path) ELSE clone.cap).out

\* vars.map(Template.keyFrom): the keys of the placeholders, in order
KeysOf(tpl) == [i \in 1..Len(SelectSeq(tpl, LAMBDA p : p.ph)) |-> SelectSeq(tpl, LAMBDA p : p.ph)[i].s]

\* #bindTextNode / #bindTextContent of a text with placeholders at a scope:
\* subscribe the consumer under every key, then fill.
BindTextNode(m, path, tpl) ==
  LET id == "t" \o ToStr(m.dom.nid)
      clone == [path |-> path, text |-> "", tpl |-> tpl, live |-> TRUE, cap |-> Undef,
                id |-> id]
  IN [m EXCEPT !.reg = SubscribeAll(@, path, KeysOf(tpl), id),
               !.dom.nid = @ + 1,
               !.dom.region = Append(@, [clone EXCEPT !.text = ItemText(m, clone)])]

\* The text of one clone of the region.
BindItem(m, path) == BindTextNode(m, path, ItemTpl)

\* for (const index in data): one clone per index, appended in order
RECURSIVE BindItems(_, _)
BindItems(m, indices) ==
  IF Len(indices) = 0 THEN m
  ELSE BindItems(BindItem(m, Append(ListTarget, indices[1])), Tail(indices))

\* The consumer #bindListNode subscribes: detach the clones, build them again.
Rebuild(m) ==
  BindItems([m EXCEPT !.dom.region = <<>>, !.dom.rebuilds = @ + 1],
            ForIn(GetState(m.s, ListTarget)))

\* The attribute consumer, at bind time and when notified.
FillAttr(m) ==
  LET r == BindAttribute(m.g, m.s, <<>>, AttrTpl)
  IN [m EXCEPT !.dom.attr = [out |-> r.out, present |-> r.present]]

\* bind(node) of part_000: the attribute is filled and nothing is subscribed for
\* it; the for region is subscribed and nothing is built.
BindV3(m) ==
  [FillAttr(m) EXCEPT !.reg = SubscribeKey(@, JoinPath(ListTarget), "list")]

\* bind(node) of the second StateManager of web-component.js: the attribute is
\* subscribed and filled; the for region is built and nothing is subscribed for it.
BindV2(m) ==
  BindItems(FillAttr([m EXCEPT !.reg = SubscribeAll(@, <<>>, <<"name">>, "attr")]),
            ForIn(Reduce(m.s, ListTarget)))

\* A consumer the binder registered, called by #processEvents.
RunBinder(m, c) ==
  IF c = "list" THEN Rebuild(m)
  ELSE IF c = "attr" THEN FillAttr(m)
  ELSE LET region == m.dom.region
       IN [m EXCEPT !.dom.region =
             [i \in 1..Len(region) |->
                IF region[i].id = c THEN [region[i] EXCEPT !.text = ItemText(m, region[i])]
                ELSE region[i]]]

\* Consumers: "c1" and "c2" only render; "w" also writes state.name = 'w'; "x"
\* throws an exception.
ConsumerIds == {"c1", "c2", "w"}
Throws(c) == c = "x"

\* m = Machine: the raw state, the queue, the registry and the nodes.
RunConsumer(m, c) ==
  IF c = "w" THEN TrapSet(m, RootView, "name", Str("w"))
  ELSE IF c \in ConsumerIds \/ Throws(c) THEN m
  ELSE RunBinder(m, c)

\* for (const consumer of consumers) consumer(...): the machine and the log after
\* the calls, and whether a consumer threw, which ends the loop and leaves
\* #processEvents. x = [m, log, threw].
RECURSIVE InvokeAll(_, _, _, _)
InvokeAll(x, cs, ev, cb) ==
  IF Len(cs) = 0 \/ x.threw THEN x
  ELSE InvokeAll([log |-> Append(x.log, [c |-> cs[1], seq |-> ev.seq, ev |-> ev,
                                         cb |-> cb, args |-> ConsumerArgs(x.m.g, ev)]),
                  m |-> RunConsumer(x.m, cs[1]),
                  threw |-> Throws(cs[1])],
                 Tail(cs), ev, cb)

----------------------------------------------------------------------------
(* ProxyState: the store of the first generation of web-component.js.        *)
(* StateManager.consumers is a WeakMap keyed by the raw objects of the state; *)
(* an object is named here by the path it is stored at.                       *)
(***************************************************************************)

\* StateManager.consumers.has(x), x the value stored at path
HasConsumers(root, reg, path) ==
  IsObject(GetAt(root, path)) /\ \E i \in 1..Len(reg) : reg[i].subject = JoinPath(path)

\* typeof x === 'object'
TypeofObject(x) == x.k \in {"object", "array", "null"}

Completed(s, result) == [s |-> s, threw |-> FALSE, result |-> result, error |-> ""]
Raised(s, error) == [s |-> s, threw |-> TRUE, result |-> Undef, error |-> error]

\* The set trap of #proxyObject: the consumers of the old value are handed on to
\* the new one with WeakMap.set, which rejects null as a key.
ProxyObjectSet(root, reg, path, key, value) ==
  IF TypeofObject(value) /\ HasConsumers(root, reg, Append(path, key)) /\ value.k = "null"
    THEN Raised(root, "TypeError")
    ELSE Completed(PutAt(root, Append(path, key), value), Bool(TRUE))

\* The deleteProperty trap of #proxyObject
ProxyObjectDelete(root, path, key) ==
  Completed(PutAt(root, path, ReflectDelete(GetAt(root, path), key)), Bool(TRUE))

\* The set trap of #proxyArray: `target[prop] = value` reads prop, which is not
\* declared anywhere.
ProxyArraySet(root, path, key, value) == Raised(root, "ReferenceError")

\* An element read from a raw array: a hole reads as undefined.
Elem(x) == IF x.k = "hole" THEN Undef ELSE x

\* value.apply(target, args) on the raw array: the array afterwards and the result
ApplyMethod(arr, method, args) ==
  LET len == Len(arr)
  IN CASE method = "push" -> [result |-> Num(len + Len(args.items)), arr |-> arr \o args.items]
       [] method = "unshift" -> [result |-> Num(len + Len(args.items)), arr |-> args.items \o arr]
       [] method = "pop" ->
            IF len = 0 THEN [result |-> Undef, arr |-> arr]
            ELSE [result |-> Elem(arr[len]), arr |-> SubSeq(arr, 1, len - 1)]
       [] method = "shift" ->
            IF len = 0 THEN [result |-> Undef, arr |-> arr]
            ELSE [result |-> Elem(arr[1]), arr |-> Tail(arr)]
       [] method = "splice" ->
            LET start == Min(args.start, len)
                dc == Min(Max(args.dc, 0), len - start)
            IN [result |-> Arr(SubSeq(arr, start + 1, start + dc)),
                arr |-> SubSeq(arr, 1, start) \o args.items \o SubSeq(arr, start + dc + 1, len)]
       [] method = "sort" ->
            LET sorted == SortList(arr, args.cmp)
            IN [result |-> Arr(sorted), arr |-> sorted]

\* The function the get trap of #proxyArray returns for a method: apply it to the
\* raw array, then wrap a result whose typeof is 'object' with #proxyObject, and
\* new Proxy(null, ...) throws.
ProxyArrayCall(root, path, method, args) ==
  LET r == ApplyMethod(GetAt(root, path).v, method, args)
      s == PutAt(root, path, Arr(r.arr))
  IN IF r.result.k = "null" THEN Raised(s, "TypeError") ELSE Completed(s, r.result)

----------------------------------------------------------------------------
(* The component shell: defineElement, open, replace *)

\* A tag handed to open or replace: undefined, or a string given by its parts
\* between hyphens ("a-b" is <<"a", "b">>, "" is <<"">>, "-" is <<"", "">>).
NoTag == [k |-> "undefined", parts |-> <<>>]
Tag(parts) == [k |-> "string", parts |-> parts]

RECURSIVE JoinParts(_)
JoinParts(parts) ==
  IF Len(parts) = 0 THEN ""
  ELSE IF Len(parts) = 1 THEN parts[1]
  ELSE parts[1] \o "-" \o JoinParts(Tail(parts))

\* The property key a tag is coerced to by `tag in WebComponent.tags`
TagText(tag) == IF tag.k = "undefined" THEN "undefined" ELSE JoinParts(tag.parts)

\* !tag
TagFalsy(tag) == tag.k = "undefined" \/ TagText(tag) = ""

\* tag.includes('-')
IncludesHyphen(tag) == Len(tag.parts) >= 2

\* customElements.define accepts a name that starts with a lower-case letter and
\* contains a hyphen (the parts are lower-case), and that is not defined yet.
DefineAccepts(h, tag) == tag.parts[1] # "" /\ TagText(tag) \notin h.defined

\* customElements.define(tag, WebComponent.tags[tag] = class ...): the assignment
\* to WebComponent.tags is evaluated before define is called.
Define(h, tag) ==
  LET h1 == [h EXCEPT !.tags = @ \cup {TagText(tag)}]
  IN IF DefineAccepts(h, tag)
       THEN [h |-> [h1 EXCEPT !.defined = @ \cup {TagText(tag)}], ret |-> "true"]
       ELSE [h |-> h1, ret |-> "throw"]

\* defineElement(tag): ret is "true", "false" or "throw"
DefineElement(g, h, tag) ==
  IF g = "v2"
    THEN IF TagText(tag) \in h.tags THEN [h |-> h, ret |-> "true"]
         ELSE IF tag.k = "undefined" THEN [h |-> h, ret |-> "throw"]
         ELSE IF ~IncludesHyphen(tag) THEN [h |-> h, ret |-> "false"]
         ELSE Define(h, tag)
    ELSE IF TagFalsy(tag) \/ ~IncludesHyphen(tag) THEN [h |-> h, ret |-> "false"]
         ELSE IF TagText(tag) \in h.tags THEN [h |-> h, ret |-> "true"]
         ELSE Define(h, tag)

\* open(tag): the shadow root's content becomes <tag></tag>
OpenTag(g, h, tag) ==
  LET r == DefineElement(g, h, tag)
  IN IF r.ret = "true" THEN [h |-> [r.h EXCEPT !.shadow = TagText(tag)], ret |-> "true"]
     ELSE r

\* replace(tag): the component gives up being the root and is replaced in its parent
ReplaceTag(g, h, tag) ==
  LET r == DefineElement(g, h, tag)
  IN IF r.ret = "true" THEN [h |-> [r.h EXCEPT !.root = FALSE, !.outer = TagText(tag)],
                             ret |-> "true"]
     ELSE r

----------------------------------------------------------------------------
(* The component shell: CodeLoader and connectedCallback *)

\* The component instances on the page.
Comps == 1..2

\* `for (const node of body.childNodes)` from node i on, run by component c:
\* a script is wrapped and appended to the component, where it executes at once
\* when the component is connected and otherwise when it is connected next; any
\* other node is bound. early records a script that executed while a node after
\* it was still unbound.
RECURSIVE RunLoop(_, _, _)
RunLoop(h, c, i) ==
  IF i > Len(h.frag) THEN h
  ELSE IF h.frag[i] = "script"
    THEN RunLoop(IF h.att[c]
                   THEN [h EXCEPT !.runs[c] = @ + 1,
                                  !.early[c] = @ \/ \E k \in (i + 1)..Len(h.frag) :
                                                      h.frag[k] # "script"]
                   ELSE [h EXCEPT !.pending[c] = @ + 1],
                 c, i + 1)
    ELSE RunLoop([h EXCEPT !.binds[c] = @ + 1], c, i + 1)

\* The call connectedCallback makes: loadFromTag finds the tag in the cache, or
\* calls fetch with the component's signal (which rejects at once when the signal
\* is aborted).
LoadFromTag(h, c) ==
  LET tag == h.tagof[c]
  IN IF tag \in h.cache THEN [h EXCEPT !.inv = Append(@, [pc |-> "hit", c |-> c])]
     ELSE IF h.aborted[c] THEN [h EXCEPT !.inv = Append(@, [pc |-> "failed", c |-> c])]
     ELSE [h EXCEPT !.inv = Append(@, [pc |-> "fetch", c |-> c]),
                    !.fetches[tag] = @ + 1]

\* The fetches of a tag that are in flight.
InFlight(h, tag) ==
  Cardinality({i \in 1..Len(h.inv) : h.inv[i].pc = "fetch" /\ h.tagof[h.inv[i].c] = tag})

----------------------------------------------------------------------------
(* Inputs *)

\* element.state at construction: absent (the manager starts from {}), or a
\* state handed down by the parent.
StateA ==
  Obj([items |-> Arr(<<Str("b"), Str("a")>>), name |-> Str("a"),
       user |-> Obj([name |-> Str("b")])])
StateB ==
  Obj([items |-> Arr(<<Obj([name |-> Str("b")]), Obj([name |-> Str("a")])>>),
       user |-> Obj([age |-> Str("a")])])
InitStates == {Obj(<<>>), StateA, StateB}

Gens == {"v2", "v3"}

\* view path and property of the writes and deletes a script makes
SetTargets ==
  {<<<<>>, "name">>, <<<<>>, "user">>, <<<<"user">>, "name">>, <<<<"user">>, "age">>,
   <<<<"items">>, "0">>, <<<<"items", "0">>, "name">>}
SetValues == {Undef, Null, Fn, Str("a"), Obj([name |-> Str("b")])}
DeleteTargets == {<<<<>>, "name">>, <<<<>>, "user">>, <<<<"user">>, "name">>}
ArrayPaths == {<<"items">>}
ItemLists == {<<Str("c")>>, <<Str("a"), Str("c")>>}
SpliceItems == {<<>>, <<Str("c")>>}
Comparators == {"default", "desc"}
\* the writes of a burst
SchedTargets == {<<<<>>, "user">>, <<<<"user">>, "name">>, <<<<"user">>, "age">>}
SchedValues == {Str("a"), Obj([name |-> Str("b")])}
\* The values of the key a template reads
NameVals ==
  {Undef, Null, Str(""), Str("0"), Str("n"), Num(0), Num(7), Bool(FALSE), Bool(TRUE)}
\* States read by the template functions: name at the root, at user and at items[0]
FillStates ==
  {Obj([items |-> Arr(<<Obj([name |-> v])>>), name |-> r, user |-> u]) :
     r \in {Undef, Str("r"), Num(0)},
     u \in {Undef, Null, Obj(<<>>), Obj([name |-> Str("u")])},
     v \in NameVals}
\* Scope paths built from in and for attributes; age is never there
Scopes ==
  {<<>>, <<"user">>, <<"items", "0">>, <<"age">>, <<"age", "user">>, <<"user", "age">>,
   <<"items", "0", "user">>, <<"age", "user", "items">>}
Templates == {<<Ph("name")>>, <<Lit("x"), Ph("name"), Lit("y"), Ph("age")>>}
FillGens == {"A", "v2", "v3"}
\* States of the bound component: a name for the attribute, items for the region
Item(text) == Obj([name |-> Str(text)])
ItemArrays == {<<>>, <<Item("a"), Item("b")>>, <<Item("a"), Item("b"), Item("c")>>}
BindStates == {Obj([items |-> Arr(q), name |-> n]) : n \in {Undef, Str("t")}, q \in ItemArrays}
NameWrites == {Undef, Str(""), Str("n"), Num(0)}

\* the tags scripts pass to open and replace
TagInputs ==
  {NoTag, Tag(<<"">>), Tag(<<"app">>), Tag(<<"a", "b">>), Tag(<<"a", "b", "c">>),
   Tag(<<"a", "">>), Tag(<<"", "b">>), Tag(<<"", "">>)}

\* the tags of the component instances, and the children of the loaded body
LoadTags == {"x-a", "x-b"}
Fragments == {<<"div", "script">>, <<"script", "div">>, <<"div", "script", "div">>}

\* the state and the registered targets of a component of the first generation
ProxyStates ==
  {Obj([items |-> Arr(q), name |-> Str("t"), user |-> u]) :
     u \in {Undef, Obj([name |-> Str("b")])},
     q \in {<<>>, <<Str("a")>>, <<Null, Str("a")>>, <<Str("c"), Str("a"), Null>>}}
ProxyRegs == {<<>>, SubscribeKey(<<>>, JoinPath(<<"user">>), "c1")}
ProxyValues == {Null, Str("a"), Obj([name |-> Str("b")])}
NoArgs == [items |-> <<>>, start |-> 0, cmp |-> "default", dc |-> 0]

\* the text bound inside a scope, the states it is bound to, the writes of scripts
TextTpl == <<Ph("name"), Lit(" "), Ph("age")>>
TextPath == <<"user">>
TextStates ==
  {Obj([name |-> Str("t"), user |-> Obj([name |-> Str("b"), age |-> ua]), age |-> a]) :
     a \in {Undef, Str("r")}, ua \in {Undef, Str("c")}}
TextTargets == {<<<<>>, "name">>, <<<<>>, "age">>, <<<<"user">>, "name">>, <<<<"user">>, "age">>}
TextValues == {Str("z"), Str("y"), Undef}

\* paths that differ as key sequences, the consumer registered at each, and the
\* writes of scripts
PathRegs == {<<<<"user", "name">>, "c1">>, <<<<"user,name">>, "c2">>}
PathTargets == {<<<<>>, "user,name">>, <<<<"user">>, "name">>, <<<<"user">>, "age">>, <<<<>>, "name">>}

\* subscribe(path, vars, ...)
SubTargets == {<<<<>>, <<"name">>>>, <<<<"user">>, <<"name">>>>, <<<<"user">>, <<"name", "age">>>>}

----------------------------------------------------------------------------
(* The state machine *)

\* No call of a template function made, nothing bound.
NoInput == [tpl |-> <<>>, scope |-> <<>>]
NoResult == [op |-> "none", out |-> "", threw |-> FALSE, present |-> FALSE]
NoDom ==
  [nid |-> 0, region |-> <<>>, rebuilds |-> 0, attr |-> [out |-> "", present |-> TRUE],
   bound |-> FALSE, muts |-> 0, writes |-> 0, same |-> FALSE, before |-> <<>>]

\* The shell before any call: no element class defined, this component the root.
NoCall == [op |-> "none", tag |-> NoTag, defined |-> FALSE, ret |-> ""]
NoHost ==
  [root |-> TRUE, defined |-> {}, tags |-> {}, shadow |-> "", outer |-> "",
   frag |-> <<>>, att |-> [c \in Comps |-> FALSE],
   runs |-> [c \in Comps |-> 0], early |-> [c \in Comps |-> FALSE], pending |-> [c \in Comps |-> 0],
   binds |-> [c \in Comps |-> 0], tagof |-> [c \in Comps |-> "x-a"],
   cache |-> {}, inv |-> <<>>, aborted |-> [c \in Comps |-> FALSE],
   fetches |-> [t \in LoadTags |-> 0], calls |-> 0,
   call |-> NoCall, resolved |-> [t \in LoadTags |-> 0], attaches |-> 0]

NoOp ==
  [key |-> "", path |-> <<>>, value |-> Undef, op |-> "none", items |-> <<>>,
   start |-> 0, cmp |-> "", dc |-> 0, before |-> Undef, prior |-> Undef,
   qlen |-> 0, raf0 |-> 0]

Machine ==
  [raf |-> raf, dom |-> dom, n |-> nseq, s |-> state, q |-> events, g |-> gen,
   reg |-> consumers]

\* The events the last store operation left at the end of the queue.
Emitted == SubSeq(events, last.qlen + 1, Len(events))

Init ==
  /\ gen \in Gens
  /\ state \in InitStates
  /\ events = <<>>
  /\ raf = 0
  /\ cbs = 0
  /\ pc = "idle"
  /\ consumers = <<>>
  /\ nseq = 0
  /\ cbno = 0
  /\ log = <<>>
  /\ taken = <<>>
  /\ seq0 = 0
  /\ last = NoOp
  /\ ops = 0
  /\ subs = 0
  /\ inp = NoInput
  /\ res = NoResult
  /\ dom = NoDom
  /\ host = NoHost

\* A script's store operation leaves machine m; budget bounds the operations.
Commit(m, rec, budget) ==
  /\ pc = "idle"
  /\ ops < budget
  /\ m.n <= MaxSeq
  /\ state' = m.s
  /\ events' = m.q
  /\ raf' = m.raf
  /\ nseq' = m.n
  /\ last' = [rec EXCEPT !.qlen = Len(events), !.raf0 = raf]
  /\ ops' = ops + 1
  /\ UNCHANGED <<gen, cbs, pc, consumers, cbno, log, taken, seq0, subs, inp, res, dom, host>>

\* view[key] = value, the view reached by reading path from element.state
SetOf(targets, values, budget) ==
  \E t \in targets, value \in values :
    LET path == t[1]
        key == t[2]
        target == GetAt(state, path)
    IN /\ IsObject(target)
       /\ target.k = "array" => IdxOf(key) <= Len(target.v) /\ Len(target.v) < MaxLen
       /\ Commit(TrapSet(Machine, ViewAt(state, path), key, value),
                 [NoOp EXCEPT !.op = "set", !.path = path, !.key = key, !.value = value,
                              !.prior = ReflectGet(target, key)],
                 budget)

Set == SetOf(SetTargets, SetValues, MaxOps)

\* delete view[key]
Delete ==
  \E t \in DeleteTargets :
    LET path == t[1]
        key == t[2]
        target == GetAt(state, path)
    IN /\ target.k = "object"
       /\ Commit(TrapDelete(Machine, ViewAt(state, path), key),
                 [NoOp EXCEPT !.op = "delete", !.path = path, !.key = key,
                              !.prior = ReflectGet(target, key)],
                 MaxOps)

IsArrayAt(path) == GetAt(state, path).k = "array"

ArrayRec(op, path) == [NoOp EXCEPT !.op = op, !.path = path, !.before = GetAt(state, path)]

PushOf(lists, budget) ==
  \E path \in ArrayPaths, items \in lists :
    /\ IsArrayAt(path)
    /\ Len(GetAt(state, path).v) + Len(items) <= MaxLen
    /\ Commit(ArrayPush(Machine, ViewAt(state, path), items),
              [ArrayRec("push", path) EXCEPT !.items = items],
              budget)

Push == PushOf(ItemLists, MaxOps)

Pop ==
  \E path \in ArrayPaths :
    /\ IsArrayAt(path)
    /\ Commit(ArrayPop(Machine, ViewAt(state, path)), ArrayRec("pop", path), MaxOps)

Shift ==
  \E path \in ArrayPaths :
    /\ IsArrayAt(path)
    /\ Commit(ArrayShift(Machine, ViewAt(state, path)), ArrayRec("shift", path), MaxOps)

Unshift ==
  \E path \in ArrayPaths, items \in ItemLists :
    /\ IsArrayAt(path)
    /\ Len(GetAt(state, path).v) + Len(items) <= MaxLen
    /\ Commit(ArrayUnshift(Machine, ViewAt(state, path), items),
              [ArrayRec("unshift", path) EXCEPT !.items = items],
              MaxOps)

Splice ==
  \E path \in ArrayPaths, start \in 0..2, deleteCount \in 0..2, items \in SpliceItems :
    /\ IsArrayAt(path)
    /\ Len(GetAt(state, path).v) + Len(items) <= MaxLen
    /\ Commit(ArraySplice(Machine, ViewAt(state, path), start, deleteCount, items),
              [ArrayRec("splice", path) EXCEPT !.items = items, !.start = start,
                                                !.dc = deleteCount],
              MaxOps)

\* The model sorts strings, null, undefined and plain objects with the default
\* order, and strings with the comparator.
Sortable(arr, cmp) ==
  \A i \in 1..Len(arr.v) :
    IF cmp = "default" THEN arr.v[i].k \in {"string", "null", "undefined", "object"}
    ELSE arr.v[i].k = "string"

Sort ==
  \E path \in ArrayPaths, cmp \in Comparators :
    /\ IsArrayAt(path)
    /\ Sortable(GetAt(state, path), cmp)
    /\ Commit(ArraySort(Machine, ViewAt(state, path), cmp),
              [ArrayRec("sort", path) EXCEPT !.cmp = cmp],
              MaxOps)

\* subscribe(path, vars, consumer), at bind time or by a caller of the registry
SubscribeOf(ids) ==
  \E t \in SubTargets, c \in ids :
    /\ pc = "idle"
    /\ subs < MaxSubs
    /\ consumers' = SubscribeAll(consumers, t[1], t[2], c)
    /\ subs' = subs + 1
    /\ last' = NoOp
    /\ UNCHANGED <<gen, state, events, raf, cbs, pc, nseq, cbno, log, taken, seq0, ops, inp, res,
                   dom, host>>

Subscribe == SubscribeOf(ConsumerIds)

\* The frame begins: the callbacks requested so far are the ones it runs.
FrameBegin ==
  /\ pc = "idle"
  /\ raf > 0
  /\ cbs' = raf
  /\ raf' = 0
  /\ pc' = "frame"
  /\ cbno' = 0
  /\ log' = <<>>
  /\ taken' = <<>>
  /\ seq0' = nseq
  /\ last' = NoOp
  /\ UNCHANGED <<gen, state, events, consumers, nseq, ops, subs, inp, res, dom, host>>

\* The frame calls #processEvents.
ProcessEventsCall ==
  /\ pc = "frame"
  /\ cbs > 0
  /\ cbs' = cbs - 1
  /\ cbno' = cbno + 1
  /\ pc' = IF LoopEnter(events) THEN "flush" ELSE "frame"
  /\ UNCHANGED <<gen, state, events, raf, consumers, nseq, log, taken, seq0, last, ops, subs,
                 inp, res, dom, host>>

\* One iteration of the while loop of #processEvents.
ProcessEventsIter ==
  /\ pc = "flush"
  /\ LET d == Dequeue(events)
         x == InvokeAll([log |-> log, m |-> [Machine EXCEPT !.q = d.rest], threw |-> FALSE],
                        Matching(consumers, d.ev.path), d.ev, cbno)
     IN /\ x.m.n <= MaxSeq
        /\ state' = x.m.s
        /\ events' = x.m.q
        /\ raf' = x.m.raf
        /\ nseq' = x.m.n
        /\ consumers' = x.m.reg
        /\ dom' = x.m.dom
        /\ log' = x.log
        /\ taken' = Append(taken, [path |-> d.ev.path, seq |-> d.ev.seq, cb |-> cbno])
        /\ pc' = IF ~x.threw /\ LoopAgain(x.m.q) THEN "flush" ELSE "frame"
  /\ UNCHANGED <<gen, cbs, cbno, seq0, last, ops, subs, inp, res, host>>

\* All callbacks of the frame have run.
FrameEnd ==
  /\ pc = "frame"
  /\ cbs = 0
  /\ pc' = "idle"
  /\ nseq' = IF Len(events) = 0 THEN 0 ELSE nseq
  /\ UNCHANGED <<gen, state, events, raf, cbs, consumers, cbno, log, taken, seq0, last, ops,
                 subs, inp, res, dom, host>>

\* The store under every operation of a script, with nothing subscribed.
Next ==
  \/ Set
  \/ Delete
  \/ Push
  \/ Pop
  \/ Shift
  \/ Unshift
  \/ Splice
  \/ Sort
  \/ FrameBegin
  \/ ProcessEventsCall
  \/ ProcessEventsIter
  \/ FrameEnd

Spec == Init /\ [][Next]_vars

\* The scheduler and the registry: subscriptions, bursts of writes, frames.
SchedInit ==
  /\ Init
  /\ state = StateA

SchedSet == SetOf(SchedTargets, SchedValues, SchedOps)
SchedPush == PushOf({<<Str("c")>>}, SchedOps)

SchedNext ==
  \/ SchedSet
  \/ SchedPush
  \/ Subscribe
  \/ FrameBegin
  \/ ProcessEventsCall
  \/ ProcessEventsIter
  \/ FrameEnd

SchedSpec == SchedInit /\ [][SchedNext]_vars

\* The scheduler when consumers may throw: writes, subscriptions, frames.
ThrowSet == SetOf(SchedTargets, {Str("a")}, ThrowOps)
ThrowSubscribe == SubscribeOf({"c1", "w", "x"})

ThrowNext ==
  \/ ThrowSet
  \/ ThrowSubscribe
  \/ FrameBegin
  \/ ProcessEventsCall
  \/ ProcessEventsIter
  \/ FrameEnd

ThrowSpec == SchedInit /\ [][ThrowNext]_vars

\* The registry under keys that contain the separator: "c1" is registered at
\* ['user', 'name'] only, "c2" at ['user,name'] only.
PathSubscribe ==
  \E t \in PathRegs :
    /\ pc = "idle"
    /\ subs < MaxSubs
    /\ consumers' = SubscribeKey(consumers, JoinPath(t[1]), t[2])
    /\ subs' = subs + 1
    /\ last' = NoOp
    /\ UNCHANGED <<gen, state, events, raf, cbs, pc, nseq, cbno, log, taken, seq0, ops, inp, res,
                   dom, host>>

PathSet == SetOf(PathTargets, SchedValues, PathOps)

PathNext ==
  \/ PathSubscribe
  \/ PathSet
  \/ FrameBegin
  \/ ProcessEventsCall
  \/ ProcessEventsIter
  \/ FrameEnd

PathSpec == SchedInit /\ [][PathNext]_vars

\* The template functions, each called once on every input.
FillInit ==
  /\ gen \in FillGens
  /\ state \in FillStates
  /\ inp \in [tpl : Templates, scope : Scopes]
  /\ res = NoResult
  /\ dom = NoDom
  /\ host = NoHost
  /\ events = <<>>
  /\ raf = 0
  /\ cbs = 0
  /\ pc = "idle"
  /\ consumers = <<>>
  /\ nseq = 0
  /\ cbno = 0
  /\ log = <<>>
  /\ taken = <<>>
  /\ seq0 = 0
  /\ last = NoOp
  /\ ops = 0
  /\ subs = 0

Called(op, r) ==
  /\ res.op = "none"
  /\ res' = [op |-> op, out |-> r.out, threw |-> r.threw,
             present |-> IF op = "attr" THEN r.present ELSE FALSE]
  /\ UNCHANGED <<gen, state, events, raf, cbs, pc, consumers, nseq, cbno, log, taken, seq0,
                 last, ops, subs, inp, dom, host>>

\* this.#fillState(node.textContent, path, vars), in part_000
FillStateCall ==
  /\ gen = "v3"
  /\ Called("fillState", FillState(state, inp.tpl, inp.scope))

\* Template.fill(text, data), data the first item
TemplateFillCall ==
  Called("fill", TemplateFill(inp.tpl, Reduce(state, <<"items", "0">>)))

\* this.#bindAttributes(clone, path) on a node with one attribute
BindAttributesCall ==
  Called("attr", BindAttribute(gen, state, inp.scope, inp.tpl))

FillNext ==
  \/ FillStateCall
  \/ TemplateFillCall
  \/ BindAttributesCall

FillSpec == FillInit /\ [][FillNext]_vars

\* The component bound to a state: binding, writes of scripts, frames.
BindInit ==
  /\ gen \in Gens
  /\ state \in BindStates
  /\ inp = NoInput
  /\ res = NoResult
  /\ dom = NoDom
  /\ host = NoHost
  /\ events = <<>>
  /\ raf = 0
  /\ cbs = 0
  /\ pc = "idle"
  /\ consumers = <<>>
  /\ nseq = 0
  /\ cbno = 0
  /\ log = <<>>
  /\ taken = <<>>
  /\ seq0 = 0
  /\ last = NoOp
  /\ ops = 0
  /\ subs = 0

\* connectedCallback: this.stateManager.bind(node) for the nodes of the body
Bind ==
  /\ pc = "idle"
  /\ ~dom.bound
  /\ LET m == IF gen = "v3" THEN BindV3(Machine) ELSE BindV2(Machine)
     IN /\ consumers' = m.reg
        /\ dom' = [m.dom EXCEPT !.bound = TRUE]
  /\ last' = [NoOp EXCEPT !.op = "bind"]
  /\ UNCHANGED <<gen, state, events, raf, cbs, pc, nseq, cbno, log, taken, seq0, ops, subs,
                 inp, res, host>>

\* The texts of the clones of the region, in the order of the parent's children.
RegionTexts == [i \in 1..Len(dom.region) |-> dom.region[i].text]

\* A script's store operation on the bound component leaves machine m and nodes d.
BindCommit(m, rec, d) ==
  /\ pc = "idle"
  /\ ops < BindOps
  /\ m.n <= MaxSeq
  /\ state' = m.s
  /\ events' = m.q
  /\ raf' = m.raf
  /\ nseq' = m.n
  /\ dom' = d
  /\ last' = [rec EXCEPT !.qlen = Len(events), !.raf0 = raf]
  /\ ops' = ops + 1
  /\ UNCHANGED <<gen, cbs, pc, consumers, cbno, log, taken, seq0, subs, inp, res, host>>

\* The nodes after a mutation of the sequence (history: the texts before the first
\* one, and whether it put an array of the same values in place of the array).
Mutated(d, same) ==
  IF ~d.bound THEN d
  ELSE [d EXCEPT !.muts = @ + 1,
                 !.same = IF d.muts = 0 THEN same ELSE d.same,
                 !.before = IF d.muts = 0 THEN RegionTexts ELSE d.before]

\* state.items = [...]: the objects the clones of web-component.js were bound to
\* are no longer in the state.
BindSetItems ==
  \E q \in ItemArrays :
    LET old == [i \in 1..Len(dom.region) |->
                  IF dom.region[i].live
                    THEN [dom.region[i] EXCEPT !.live = FALSE,
                                               !.cap = Reduce(state, dom.region[i].path)]
                    ELSE dom.region[i]]
    IN BindCommit(TrapSet(Machine, RootView, "items", Arr(q)),
                  [NoOp EXCEPT !.op = "set", !.key = "items", !.value = Arr(q),
                               !.prior = ReflectGet(state, "items")],
                  Mutated([dom EXCEPT !.region = old], Arr(q) = ReflectGet(state, "items")))

\* state.items.push({name: 'c'})
BindPush ==
  /\ Len(GetAt(state, ListTarget).v) < MaxLen
  /\ BindCommit(ArrayPush(Machine, ViewAt(state, ListTarget), <<Item("c")>>),
                [ArrayRec("push", ListTarget) EXCEPT !.items = <<Item("c")>>],
                Mutated(dom, FALSE))

\* state.name = value
BindSetName ==
  \E value \in NameWrites :
    BindCommit(TrapSet(Machine, RootView, "name", value),
               [NoOp EXCEPT !.op = "set", !.key = "name", !.value = value,
                            !.prior = ReflectGet(state, "name")],
               IF dom.bound THEN [dom EXCEPT !.writes = @ + 1] ELSE dom)

BindNext ==
  \/ Bind
  \/ BindSetItems
  \/ BindPush
  \/ BindSetName
  \/ FrameBegin
  \/ ProcessEventsCall
  \/ ProcessEventsIter
  \/ FrameEnd

BindSpec == BindInit /\ [][BindNext]_vars

\* A text bound inside a scope, <p in="user">${name} ${age}</p>, in part_000:
\* binding, writes of scripts, frames.
TextInit ==
  /\ gen = "v3"
  /\ state \in TextStates
  /\ inp = NoInput
  /\ res = NoResult
  /\ dom = NoDom
  /\ host = NoHost
  /\ events = <<>>
  /\ raf = 0
  /\ cbs = 0
  /\ pc = "idle"
  /\ consumers = <<>>
  /\ nseq = 0
  /\ cbno = 0
  /\ log = <<>>
  /\ taken = <<>>
  /\ seq0 = 0
  /\ last = NoOp
  /\ ops = 0
  /\ subs = 0

\* bind(node): #bindElementNode extends the path by the in attribute, and
\* #bindTextNode binds the text at that path.
TextBind ==
  /\ pc = "idle"
  /\ ~dom.bound
  /\ LET m == BindTextNode(Machine, TextPath, TextTpl)
     IN /\ consumers' = m.reg
        /\ dom' = [m.dom EXCEPT !.bound = TRUE]
  /\ last' = [NoOp EXCEPT !.op = "bind"]
  /\ UNCHANGED <<gen, state, events, raf, cbs, pc, nseq, cbno, log, taken, seq0, ops, subs,
                 inp, res, host>>

\* view[key] = value, on the root or on state.user
TextSet ==
  \E t \in TextTargets, value \in TextValues :
    /\ dom.bound
    /\ GetAt(state, t[1]).k = "object"
    /\ BindCommit(TrapSet(Machine, ViewAt(state, t[1]), t[2], value),
                  [NoOp EXCEPT !.op = "set", !.path = t[1], !.key = t[2], !.value = value,
                               !.prior = ReflectGet(GetAt(state, t[1]), t[2])],
                  [dom EXCEPT !.writes = @ + 1])

TextNext ==
  \/ TextBind
  \/ TextSet
  \/ FrameBegin
  \/ ProcessEventsCall
  \/ ProcessEventsIter
  \/ FrameEnd

TextSpec == TextInit /\ [][TextNext]_vars

\* The shell: scripts call open and replace.
ShellInit ==
  /\ gen \in Gens
  /\ state = Obj(<<>>)
  /\ inp = NoInput
  /\ res = NoResult
  /\ dom = NoDom
  /\ host = NoHost
  /\ events = <<>>
  /\ raf = 0
  /\ cbs = 0
  /\ pc = "idle"
  /\ consumers = <<>>
  /\ nseq = 0
  /\ cbno = 0
  /\ log = <<>>
  /\ taken = <<>>
  /\ seq0 = 0
  /\ last = NoOp
  /\ ops = 0
  /\ subs = 0

\* One call of open or replace returned r.
ShellCall(op, tag, r) ==
  /\ host.calls < MaxCalls
  /\ host' = [r.h EXCEPT !.calls = @ + 1,
                         !.call = [op |-> op, tag |-> tag, defined |-> r.h.defined # host.defined,
                                   ret |-> r.ret]]
  /\ UNCHANGED <<gen, state, events, raf, cbs, pc, consumers, nseq, cbno, log, taken, seq0,
                 last, ops, subs, inp, res, dom>>

OpenCall == \E tag \in TagInputs : ShellCall("open", tag, OpenTag(gen, host, tag))

ReplaceCall == \E tag \in TagInputs : ShellCall("replace", tag, ReplaceTag(gen, host, tag))

ShellNext ==
  \/ OpenCall
  \/ ReplaceCall

ShellSpec == ShellInit /\ [][ShellNext]_vars

\* Component instances are attached and detached while fragments load.
LoadInit ==
  /\ ShellInit
  /\ gen = "v3"

LoadStep(h) ==
  /\ host' = h
  /\ UNCHANGED <<gen, state, events, raf, cbs, pc, consumers, nseq, cbno, log, taken, seq0,
                 last, ops, subs, inp, res, dom>>

\* The page is set up: each instance has its tag, the server its fragment.
Setup ==
  /\ host.frag = <<>>
  /\ \E tagof \in [Comps -> LoadTags], frag \in Fragments :
       LoadStep([host EXCEPT !.tagof = tagof, !.frag = frag])

\* Component c is connected: pending scripts execute, connectedCallback starts.
Attach ==
  \E c \in Comps :
    /\ host.frag # <<>>
    /\ ~host.att[c]
    /\ host.attaches < MaxAttach
    /\ LoadStep(LoadFromTag([host EXCEPT !.att[c] = TRUE,
                                         !.runs[c] = @ + host.pending[c],
                                         !.pending[c] = 0,
                                         !.attaches = @ + 1], c))

\* Component c is disconnected: disconnectedCallback aborts its signal, and its
\* fetches in flight reject.
Detach ==
  \E c \in Comps :
    /\ host.att[c]
    /\ LoadStep([host EXCEPT !.att[c] = FALSE,
                             !.aborted[c] = TRUE,
                             !.inv = [i \in 1..Len(@) |->
                                        IF @[i].c = c /\ @[i].pc = "fetch"
                                          THEN [@[i] EXCEPT !.pc = "failed"]
                                          ELSE @[i]]])

\* A fetch resolves: the body is parsed and cached, loadFromTag returns and the
\* loop of connectedCallback runs.
FetchResolve ==
  \E i \in 1..Len(host.inv) :
    LET c == host.inv[i].c
        tag == host.tagof[c]
    IN /\ host.inv[i].pc = "fetch"
       /\ LoadStep(RunLoop([host EXCEPT !.cache = @ \cup {tag},
                                        !.resolved[tag] = @ + 1,
                                        !.inv[i].pc = "done"], c, 1))

\* loadFromTag returned the cached body: the loop of connectedCallback runs.
CacheHit ==
  \E i \in 1..Len(host.inv) :
    /\ host.inv[i].pc = "hit"
    /\ LoadStep(RunLoop([host EXCEPT !.inv[i].pc = "done"], host.inv[i].c, 1))

LoadNext ==
  \/ Setup
  \/ Attach
  \/ Detach
  \/ FetchResolve
  \/ CacheHit

LoadSpec == LoadInit /\ [][LoadNext]_vars

\* The store of the first generation under the operations of a script.
ProxyInit ==
  /\ gen = "A"
  /\ state \in ProxyStates
  /\ consumers \in ProxyRegs
  /\ inp = NoInput
  /\ res = NoResult
  /\ dom = NoDom
  /\ host = NoHost
  /\ events = <<>>
  /\ raf = 0
  /\ cbs = 0
  /\ pc = "idle"
  /\ nseq = 0
  /\ cbno = 0
  /\ log = <<>>
  /\ taken = <<>>
  /\ seq0 = 0
  /\ last = NoOp
  /\ ops = 0
  /\ subs = 0

\* One operation through a view completed or threw: r.
ProxyOp(op, r) ==
  /\ ops < MaxOps
  /\ state' = r.s
  /\ res' = [op |-> op, out |-> r.error, threw |-> r.threw, present |-> FALSE]
  /\ ops' = ops + 1
  /\ UNCHANGED <<gen, events, raf, cbs, pc, consumers, nseq, cbno, log, taken, seq0, last,
                 subs, inp, dom, host>>

\* view[key] = value on the root or on state.user
ProxySet ==
  \E t \in {<<<<>>, "name">>, <<<<>>, "user">>, <<<<"user">>, "name">>}, value \in ProxyValues :
    /\ GetAt(state, t[1]).k = "object"
    /\ ProxyOp("set", ProxyObjectSet(state, consumers, t[1], t[2], value))

\* delete view[key]
ProxyDelete ==
  \E t \in DeleteTargets :
    /\ GetAt(state, t[1]).k = "object"
    /\ ProxyOp("delete", ProxyObjectDelete(state, t[1], t[2]))

\* state.items[i] = value
ProxyIndexSet ==
  \E i \in 0..1, value \in ProxyValues :
    ProxyOp("index", ProxyArraySet(state, <<"items">>, ToStr(i), value))

ProxyCall(method, args) ==
  /\ Len(GetAt(state, <<"items">>).v) + Len(args.items) <= MaxLen
  /\ ProxyOp(method, ProxyArrayCall(state, <<"items">>, method, args))

ProxyPush == \E items \in ItemLists : ProxyCall("push", [NoArgs EXCEPT !.items = items])
ProxyPop == ProxyCall("pop", NoArgs)
ProxyShift == ProxyCall("shift", NoArgs)
ProxyUnshift == \E items \in ItemLists : ProxyCall("unshift", [NoArgs EXCEPT !.items = items])
ProxySplice ==
  \E start \in 0..2, deleteCount \in 0..2, items \in SpliceItems :
    ProxyCall("splice", [NoArgs EXCEPT !.items = items, !.start = start, !.dc = deleteCount])
ProxySort == ProxyCall("sort", NoArgs)

ProxyNext ==
  \/ ProxySet
  \/ ProxyDelete
  \/ ProxyIndexSet
  \/ ProxyPush
  \/ ProxyPop
  \/ ProxyShift
  \/ ProxyUnshift
  \/ ProxySplice
  \/ ProxySort

ProxySpec == ProxyInit /\ [][ProxyNext]_vars

----------------------------------------------------------------------------
(* Properties of the store, checked under Spec *)

\* C1: a write of a non-function value through a view emits ASSIGN, with old
\* value undefined and the written value as new value, when the value at the
\* path was undefined, and CHANGE, with the prior value as old value and the
\* written value as new value, otherwise; the event is the last one the write
\* enqueues and is addressed to the written path. Every other event the write
\* enqueues (through a proxy stored in the tree) carries the same kind and values.
C1_SetEmitsAssignOrChange ==
  (last.op = "set" /\ last.value.k # "function") =>
    LET e == Emitted
        kind == IF last.prior.k = "undefined" THEN "assign" ELSE "change"
    IN /\ Len(e) >= 1
       /\ e[Len(e)].path = Append(last.path, last.key)
       /\ \A i \in 1..Len(e) :
            /\ e[i].event = kind
            /\ e[i].oldValue = last.prior
            /\ e[i].newValue = last.value
       /\ raf = last.raf0 + Len(e)

\* undefined written over a defined value, after an earlier write: one CHANGE
C1_Witness ==
  /\ last.op = "set"
  /\ ops = 2
  /\ last.value.k = "undefined"
  /\ last.prior.k = "string"
  /\ Len(Emitted) = 1
  /\ Emitted[1].event = "change"

\* C6: push(...items) and unshift(...items) on a wrapped array emit exactly one
\* event, an ADD at the array's path followed by the index of the first inserted
\* item (the old length for push, 0 for unshift), with the inserted items as new
\* value.
C6_PushUnshiftEmitAdd ==
  (last.op \in {"push", "unshift"}) =>
    LET first == IF last.op = "push" THEN Len(last.before.v) ELSE 0
    IN /\ Len(Emitted) = 1
       /\ Emitted[1].event = "add"
       /\ Emitted[1].path = Append(last.path, ToStr(first))
       /\ Emitted[1].newValue = Arr(last.items)

\* C7: pop() and shift() on a wrapped non-empty array emit a REMOVE at the array's
\* path followed by the vacated index (the old last index for pop, 0 for shift),
\* with the removed element as old value.
C7_PopShiftEmitRemove ==
  (last.op \in {"pop", "shift"} /\ Len(last.before.v) > 0) =>
    LET idx == IF last.op = "pop" THEN Len(last.before.v) - 1 ELSE 0
        removed == last.before.v[idx + 1]
    IN \E i \in 1..Len(Emitted) :
         /\ Emitted[i].event = "remove"
         /\ Emitted[i].path = Append(last.path, ToStr(idx))
         /\ Emitted[i].oldValue = removed

\* C8: splice(start, deleteCount, ...items) emits REMOVE at [array path, start]
\* if and only if an element was deleted, ADD at [array path, start] if and only
\* if an item was inserted, and REMOVE before ADD when both.
C8_SpliceEmitsRemoveThenAdd ==
  (last.op = "splice") =>
    LET len == Len(last.before.v)
        actualStart == Min(last.start, len)
        deleted == Min(last.dc, len - actualStart)
        at == Append(last.path, ToStr(last.start))
        removes == {i \in 1..Len(Emitted) :
                      Emitted[i].event = "remove" /\ Emitted[i].path = at}
        adds == {i \in 1..Len(Emitted) : Emitted[i].event = "add" /\ Emitted[i].path = at}
    IN /\ (removes # {}) <=> (deleted >= 1)
       /\ (adds # {}) <=> (Len(last.items) >= 1)
       /\ \A i \in removes, j \in adds : i < j

\* C9: sort(cmp) emits exactly one event, a MOVE at the array's own path, with
\* the array before sorting as old value and the array after sorting as new value.
C9_SortEmitsMove ==
  (last.op = "sort") =>
    /\ Len(Emitted) = 1
    /\ Emitted[1].event = "move"
    /\ Emitted[1].path = last.path
    /\ Emitted[1].oldValue = last.before
    /\ Emitted[1].newValue = GetAt(state, last.path)

\* C10: a write of a function stores it and emits nothing: the queue and the
\* requested frame callbacks are as before the write.
C10_FunctionWriteSilent ==
  (last.op = "set" /\ last.value.k = "function") =>
    /\ ReflectGet(GetAt(state, last.path), last.key).k = "function"
    /\ Len(Emitted) = 0
    /\ raf = last.raf0

----------------------------------------------------------------------------
(* Properties of the scheduler and the registry, checked under SchedSpec *)

C3_FifoDelivery ==
  /\ \A i, j \in 1..Len(log) : i < j => log[i].seq <= log[j].seq
  /\ \A i, j \in 1..Len(taken) : i < j => taken[i].seq < taken[j].seq

\* consumers invoked for two different events of one flush
C3_Witness ==
  /\ Len(log) >= 2
  /\ log[1].seq < log[Len(log)].seq
  /\ log[1].cb = log[Len(log)].cb

\* C4: an event a consumer enqueues during a flush is not delivered in that
\* flush: every event delivered in a frame was enqueued before the frame began.
C4_NoReentrantDrain ==
  \A i \in 1..Len(log) : log[i].seq < seq0

RegisteredAt(c, subject) ==
  \E k \in 1..Len(consumers) :
    /\ consumers[k].subject = subject
    /\ \E j \in 1..Len(consumers[k].subs) : consumers[k].subs[j] = c

\* C5: a consumer is invoked for an event only if it is registered under the
\* serialization of the event's path; a consumer registered at ["user","name"]
\* alone is invoked for events at ["user","name"] alone, not for a mutation of
\* ["user"] or ["user","age"].
C5_ExactPathMatching ==
  \A i \in 1..Len(log) :
    /\ RegisteredAt(log[i].c, JoinPath(log[i].args.path))
    /\ (\A k \in 1..Len(consumers) :
          RegisteredAt(log[i].c, consumers[k].subject) => consumers[k].subject = "user,name")
       => log[i].args.path = <<"user", "name">>

\* a frame that flushed a mutation of ["user"] and one of ["user","name"], and
\* invoked the consumer of ["user","name"] once
C5_Witness ==
  /\ pc = "frame"
  /\ \E i \in 1..Len(taken) : taken[i].path = <<"user">>
  /\ \E i \in 1..Len(taken) : taken[i].path = <<"user", "name">>
  /\ Len(consumers) = 1
  /\ consumers[1].subject = "user,name"
  /\ Len(log) = Len(consumers[1].subs)

----------------------------------------------------------------------------
(* Nested views, checked under Spec *)

\* C11: a write or delete of key k through the view reached by reading keys
\* k1..kn from the root view emits an event at exactly [k1, ..., kn, k], at
\* depth 0, 1 and 2 and after the value at a prefix of the path was replaced;
\* it is the last event the operation enqueues, and every event it enqueues
\* ends with k.
C11_NestedViewPath ==
  (last.op \in {"set", "delete"} /\ ~FunctionExempt(gen, last.value)) =>
    LET e == Emitted
    IN /\ Len(e) >= 1
       /\ e[Len(e)].path = Append(last.path, last.key)
       /\ Len(e[Len(e)].path) = Len(last.path) + 1
       /\ \A i \in 1..Len(e) : e[i].path[Len(e[i].path)] = last.key

\* items[0], a string at construction, replaced by an object, then written
\* through the view items[0]: one event at ["items","0","name"]
C11_Witness ==
  /\ last.op = "set"
  /\ last.path = <<"items", "0">>
  /\ last.key = "name"
  /\ last.prior = Str("b")
  /\ GetAt(state, <<"items", "1">>) = Str("a")
  /\ Len(Emitted) = 1
  /\ Emitted[1].path = <<"items", "0", "name">>

----------------------------------------------------------------------------
(* Notification, checked under SchedSpec *)

\* C12: when an event is flushed, the consumers invoked for it are exactly the
\* consumers registered under its serialized path, in registration order, and
\* each invocation receives the event's kind, path, old value and new value.
C12_FullPayloadInOrder ==
  pc \in {"frame", "flush"} =>
    /\ \A j \in 1..Len(taken) :
         LET inv == SelectSeq(log, LAMBDA e : e.seq = taken[j].seq)
         IN [i \in 1..Len(inv) |-> inv[i].c] = Matching(consumers, taken[j].path)
    /\ \A i \in 1..Len(log) :
         log[i].args = [path |-> log[i].ev.path, event |-> log[i].ev.event,
                        oldValue |-> log[i].ev.oldValue, newValue |-> log[i].ev.newValue]

----------------------------------------------------------------------------
(* Properties of the template functions, checked under FillSpec *)

\* C13: #fillState at scope path P renders, for every key of the template that
\* is defined (not undefined) at P or at a prefix of P, the value at the longest
\* such prefix, whatever that value is: its string, or the empty string when
\* it is falsy. Checked for templates all of whose keys are defined somewhere.
C13_NearestPrefixWins ==
  LET DefinedAt(i, key) ==
        LET o == Reduce(state, SubSeq(inp.scope, 1, i))
        IN IsObject(o) /\ PropOf(o, key).k # "undefined"
      Levels(key) == {i \in 0..Len(inp.scope) : DefinedAt(i, key)}
      Nearest(key) ==
        LET i == CHOOSE i \in Levels(key) : \A j \in Levels(key) : j <= i
        IN PropOf(Reduce(state, SubSeq(inp.scope, 1, i)), key)
      Texts(key) ==
        {Str(StringOf(Nearest(key)))} \cup (IF Falsy(Nearest(key)) THEN {Str("")} ELSE {})
  IN (res.op = "fillState" /\ \A key \in VarsOf(inp.tpl) : Levels(key) # {}) =>
       /\ ~res.threw
       /\ \E f \in [VarsOf(inp.tpl) -> UNION {Texts(key) : key \in VarsOf(inp.tpl)}] :
            /\ \A key \in VarsOf(inp.tpl) : f[key] \in Texts(key)
            /\ res.out = Replace(inp.tpl, f).out

\* C14: #fillState on a template none of whose keys is defined at the scope
\* path, at a prefix of it or at the root returns the template text unchanged
\* and throws nothing, and #bindAttributes of part_000 throws nothing, for
\* every scope path, also one whose segments are not in the state.
C14_UnresolvedLeftUnchanged ==
  LET DefinedAt(i, key) ==
        LET o == Reduce(state, SubSeq(inp.scope, 1, i))
        IN IsObject(o) /\ PropOf(o, key).k # "undefined"
  IN /\ (res.op = "fillState"
          /\ \A key \in VarsOf(inp.tpl) : \A i \in 0..Len(inp.scope) : ~DefinedAt(i, key)) =>
           /\ ~res.threw
           /\ res.out = SourceText(gen, inp.tpl)
     /\ (res.op = "attr" /\ gen = "v3") => ~res.threw

\* C18: Template.fill replaces every placeholder by String(data[key]) when the
\* value is neither null nor undefined, and by the empty string when it is,
\* also for 0, false and the empty string.
C18_FillStringOrEmpty ==
  LET data == Reduce(state, <<"items", "0">>)
      Expected == [key \in VarsOf(inp.tpl) |->
                     IF PropOf(data, key).k \in {"undefined", "null"} THEN Str("")
                     ELSE Str(StringOf(PropOf(data, key)))]
  IN res.op = "fill" =>
       /\ ~res.threw
       /\ res.out = Replace(inp.tpl, Expected).out

\* C19: the first call of an attribute's consumer removes the attribute when the
\* value its placeholder resolves to is "", 0 or undefined, and sets it to "0"
\* when the value is the string "0", in the three generations of #bindAttributes.
C19_AttributeAbsence ==
  (res.op = "attr" /\ ~res.threw) =>
    LET i == CHOOSE i \in 1..Len(inp.tpl) : inp.tpl[i].ph /\ \A j \in 1..(i - 1) : ~inp.tpl[j].ph
        resolved == AttrResolved(gen, state, inp.scope, inp.tpl[i].s)
    IN /\ resolved \in {Str(""), Num(0), Undef} => ~res.present
       /\ resolved = Str("0") => res.present /\ res.out = "0"

\* the item's name is the string "0": the attribute bound at ["items","0"] is kept
C19_Witness ==
  /\ res.op = "attr"
  /\ ~res.threw
  /\ inp.scope = <<"items", "0">>
  /\ AttrResolved(gen, state, inp.scope, "name") = Str("0")
  /\ res.present
  /\ res.out = "0"

----------------------------------------------------------------------------
(* Properties of the bound component, checked under BindSpec *)

\* The region holds one clone per item of state.items, in index order, clone i
\* bound at ["items", i] and showing the item's name.
RegionRendersItems ==
  LET items == ReflectGet(state, "items").v
  IN /\ Len(dom.region) = Len(items)
     /\ \A i \in 1..Len(items) :
          /\ dom.region[i].path = <<"items", ToStr(i - 1)>>
          /\ dom.region[i].text = ReflectGet(items[i], "name").s

\* A frame has run since the last store operation: nothing is queued or requested.
Settled == dom.bound /\ pc = "idle" /\ Len(events) = 0 /\ raf = 0

\* C15: after one or more mutations of the sequence of the bound for region
\* (a new array assigned, a push) and the frame that follows, the region holds
\* exactly one clone per item of the current sequence, in index order.
C15_RegionRebuiltAfterFrame ==
  (Settled /\ dom.muts >= 1) => RegionRendersItems

\* C16: right after bind, before any flush, the region holds one clone per item
\* of the sequence, in index order, clone i bound at ["items", i] and showing
\* its item's text.
C16_ClonesAtBindTime ==
  last.op = "bind" => RegionRendersItems

\* C17: when the only mutation since bind put a 3-item array of the same
\* values in place of the 3-item array, the texts of the region after the frame
\* are the texts it showed before the replacement.
C17_RebuildIdempotent ==
  (Settled /\ dom.muts = 1 /\ dom.same /\ Len(ReflectGet(state, "items").v) = 3) =>
    RegionTexts = dom.before

\* C20: after a write to state.name, the key of the placeholder of the bound
\* attribute, and the frame that follows, the attribute holds the new value,
\* or is absent when the new value is falsy.
C20_AttributeLive ==
  (Settled /\ dom.writes >= 1) =>
    dom.attr = IF Falsy(ReflectGet(state, "name")) THEN [out |-> "", present |-> FALSE]
               ELSE [out |-> StringOf(ReflectGet(state, "name")), present |-> TRUE]

\* The clones attached to the region, by the id of their text consumer.
LiveIds == {dom.region[i].id : i \in 1..Len(dom.region)}

\* C28: a rebuild of the list region ends the lifetime of the clones it
\* detaches: after any number of rebuilds every consumer in the registry that
\* was registered while a clone was bound belongs to a clone still attached, so
\* the consumers under a key do not grow with the number of rebuilds.
C28_NoConsumerOfDetachedClone ==
  dom.rebuilds >= 1 =>
    \A i \in 1..Len(consumers) : \A j \in 1..Len(consumers[i].subs) :
      consumers[i].subs[j] \in {"list", "attr"} \cup LiveIds

----------------------------------------------------------------------------
(* Properties of the component shell, checked under ShellSpec *)

\* A valid component name: exactly two non-empty parts around one hyphen.
ValidName(tag) ==
  tag.k = "string" /\ Len(tag.parts) = 2 /\ tag.parts[1] # "" /\ tag.parts[2] # ""

\* C21: open(tag) and replace(tag) return false, define no custom element and
\* raise nothing when tag is not a valid two-part hyphenated name, and return
\* true only for valid names.
C21_InvalidTagFalsy ==
  host.call.op \in {"open", "replace"} =>
    /\ ~ValidName(host.call.tag) => host.call.ret = "false" /\ ~host.call.defined
    /\ host.call.ret = "true" => ValidName(host.call.tag)


----------------------------------------------------------------------------
(* Properties of the loader and of connectedCallback, checked under LoadSpec *)

C23_ScriptOnceAfterBinding ==
  \A c \in Comps : host.runs[c] <= 1 /\ ~host.early[c]


----------------------------------------------------------------------------
(* Properties of the ProxyState store, checked under ProxySpec *)

\* C24: no operation through a view of the store raises an exception: property
\* write, delete, assignment to an array index, push, pop, shift, unshift,
\* splice and sort all complete normally in every reachable state.
C24_StoreNeverThrows == res.op # "none" => ~res.threw


----------------------------------------------------------------------------
(* Delivery when consumers throw, checked under ThrowSpec *)

\* All callbacks of the frame have run.
FrameOver == pc = "frame" /\ cbs = 0

\* C25: every event enqueued before a frame began has been dequeued and matched
\* against the registry when the callbacks of that frame have run, whatever the
\* number of pending events, also when a consumer threw during the flush.
C25_DequeuedByNextFrame ==
  FrameOver => \A i \in 1..Len(events) : events[i].seq >= seq0

\* A consumer threw while later events were pending, and they were dequeued by a
\* later callback of the same frame.
C25_Witness ==
  /\ FrameOver
  /\ Len(events) = 0
  /\ \E i \in 1..Len(log), j \in 1..Len(taken) :
       /\ Throws(log[i].c)
       /\ taken[j].seq > log[i].seq
       /\ taken[j].cb > log[i].cb


----------------------------------------------------------------------------
(* Properties of a bound text, checked under TextSpec *)

\* The text node and what its template yields on the current state.
TextNode == dom.region[1]
TextFilled == FillState(state, TextTpl, TextPath).out

\* C26: a bound text node is live for every key it references: after writes to
\* the locations its placeholders were resolved from and a flush, its text is
\* its template filled from the current state, for a key at its own scope and
\* for a key resolved by ancestor fallback from the root.
C26_TextLive == (Settled /\ dom.writes >= 1) => TextNode.text = TextFilled


----------------------------------------------------------------------------
(* Path serialization, checked under PathSpec *)

\* The path a consumer of PathRegs was registered at.
RegisteredPath(c) == (CHOOSE t \in PathRegs : t[2] = c)[1]

\* C27: path serialization is injective: a consumer is invoked only for an event
\* whose path is, key by key, the path it was registered at, also when a key
\* contains the separator.
C27_SerializationInjective ==
  \A i \in 1..Len(log) : log[i].ev.path = RegisteredPath(log[i].c)


----------------------------------------------------------------------------
(* Termination of the flush, checked under SchedSpec *)

\* The queue without the sequence numbers the model adds to the events.
Pending(q) == [i \in 1..Len(q) |-> [q[i] EXCEPT !.seq = 0]]

\* C29: every flush terminates. The loop of #processEvents is a function of the
\* state, the registry, the nodes and the queue, so a terminating flush never
\* ends an iteration inside the loop with all four as they were when the
\* iteration began.
C29_FlushTerminates ==
  [][(pc = "flush" /\ pc' = "flush") =>
       ~(/\ state' = state
         /\ consumers' = consumers
         /\ dom' = dom
         /\ Pending(events') = Pending(events))]_vars

====
